---- MODULE Spec2Model ----
(***************************************************************************)
(* The import of the package src.agent, i.e. the execution of the module   *)
(* body of src/agent/__init__.py:                                          *)
(*                                                                         *)
(*   17  from src.agent.state import AgentState                            *)
(*   18  from src.agent.workflow import build_agent_graph                  *)
(*   20  __all__ = ["build_agent_graph", "AgentState"]                     *)
(*                                                                         *)
(* The two sibling modules are not part of the repository: they are the    *)
(* environment of the initializer and are drawn from every shape a         *)
(* sibling can have (absent, raising while it executes, or executing and   *)
(* defining some of the names).                                            *)
(***************************************************************************)
EXTENDS Integers, Sequences, FiniteSets, TLC

\* Number of distinct objects a sibling module may bind a name to.
NumObjects == 3

\* Object identities the siblings' definitions are drawn from.
Objects == 1..NumObjects

\* Identity of the list object built by the list display of line 20.
ListObj == 0

\* Dotted names of the modules involved.
PackageName == "src.agent"
StateModuleName == "src.agent.state"
WorkflowModuleName == "src.agent.workflow"

\* Names a sibling module may define at its top level.
SiblingNames == {"AgentState", "build_agent_graph"}

\* Outcomes of executing an import statement.
NoError == "none"
Errors == {"ModuleNotFoundError", "ExecError", "ImportError"}

\* The namespace with no binding.
EmptyNs == [n \in {} |-> ListObj]

\* Every namespace a sibling module can end up with once it has executed.
Namespaces == UNION {[D -> Objects] : D \in SUBSET SiblingNames}

\* Every shape of a sibling module: absent from the path, present but
\* raising while its body executes, or present and executed.
SiblingModules ==
    {[status |-> "absent", defs |-> EmptyNs], [status |-> "broken", defs |-> EmptyNs]}
        \cup {[status |-> "ok", defs |-> d] : d \in Namespaces}

VARIABLES
    pc,               \* the statement of the module body about to execute
    namespace,        \* the package's namespace: bound name -> object identity
    __all__,          \* contents of the list object bound to __all__
    sys_modules,      \* dotted names registered in sys.modules
    raised,           \* the exception that reached the importer, or NoError
    attempted,        \* modules whose resolution the initializer has started
    calls,            \* callables the initializer has called or instantiated
    state_module,     \* the sibling src.agent.state as found on the path
    workflow_module   \* the sibling src.agent.workflow as found on the path

vars == <<pc, namespace, __all__, sys_modules, raised, attempted, calls,
          state_module, workflow_module>>

\* name := obj in the namespace ns.
Bind(ns, name, obj) ==
    [n \in (DOMAIN ns) \cup {name} |-> IF n = name THEN obj ELSE ns[n]]

\* "from <mod> import <name>": the exception the statement raises, or NoError.
ImportError(mod, name) ==
    IF mod.status = "absent" THEN "ModuleNotFoundError"
    ELSE IF mod.status = "broken" THEN "ExecError"
    ELSE IF name \notin DOMAIN mod.defs THEN "ImportError"
    ELSE NoError

\* "from <mod> import <name>" resolves.
Resolves(mod, name) == ImportError(mod, name) = NoError

\* sys.modules after the sibling called modname has been looked up: a module
\* whose body executed stays registered, also when the name is then missing.
Registered(mods, mod, modname) ==
    IF mod.status = "ok" THEN mods \cup {modname} ELSE mods

\* The list display of lines 20-23, mutated to list a name twice.
ExportListDup == <<"build_agent_graph", "AgentState", "AgentState">>

\* The list display of lines 20-23.
ExportList == <<"build_agent_graph", "AgentState">>

\* The module body with the second import left out.
NextLineSkip(l) ==
    CASE l = "line17" -> "line20"
      [] l = "line18" -> "line20"
      [] l = "line20" -> "done"

\* The statement that follows statement l in the module body.
NextLine(l) ==
    CASE l = "line17" -> "line18"
      [] l = "line18" -> "line20"
      [] l = "line20" -> "done"

\* The import system has created the package, registered it and is about to
\* execute the first statement of its body.
Init ==
    /\ pc = "line17"
    /\ namespace = EmptyNs
    /\ __all__ = <<>>
    /\ sys_modules = {PackageName}
    /\ raised = NoError
    /\ attempted = <<>>
    /\ calls = {}
    /\ state_module \in SiblingModules
    /\ workflow_module \in SiblingModules

\* The exception err mutated into one the module body catches and ignores.
PropagateCaught(err, mods) ==
    /\ pc' = NextLine(pc)
    /\ raised' = NoError
    /\ sys_modules' = mods
    /\ UNCHANGED <<namespace, __all__>>

\* An exception err leaves the module body: nothing catches it, the import
\* system unregisters the package and the importer receives err.
Propagate(err, mods) ==
    /\ pc' = "failed"
    /\ raised' = err
    /\ sys_modules' = mods \ {PackageName}
    /\ UNCHANGED <<namespace, __all__>>

\* "from <modname> import <name> as <asname>" executed as statement line.
ImportFrom(line, mod, modname, name, asname) ==
    /\ pc = line
    /\ attempted' = Append(attempted, modname)
    /\ LET err == ImportError(mod, name)
           mods == Registered(sys_modules, mod, modname)
       IN IF err = NoError
          THEN /\ namespace' = Bind(namespace, asname, mod.defs[name])
               /\ sys_modules' = mods
               /\ pc' = NextLine(line)
               /\ UNCHANGED <<__all__, raised>>
          ELSE Propagate(err, mods)
    /\ UNCHANGED <<calls, state_module, workflow_module>>

\* Line 17 mutated: the name is taken from the other sibling.
ImportStateFromWorkflow ==
    ImportFrom("line17", workflow_module, WorkflowModuleName, "AgentState", "AgentState")

\* Line 17 mutated: the name is bound under an alias.
ImportStateRenamed ==
    ImportFrom("line17", state_module, StateModuleName, "AgentState", "State")

\* Line 17: from src.agent.state import AgentState
ImportState ==
    ImportFrom("line17", state_module, StateModuleName, "AgentState", "AgentState")

\* Line 18: from src.agent.workflow import build_agent_graph
ImportWorkflow ==
    ImportFrom("line18", workflow_module, WorkflowModuleName,
               "build_agent_graph", "build_agent_graph")

\* Lines 20-23 mutated: the graph is also built at import time.
AssignAllAndBuild ==
    /\ pc = "line20"
    /\ __all__' = ExportList
    /\ namespace' = Bind(namespace, "__all__", ListObj)
    /\ calls' = calls \cup {"build_agent_graph"}
    /\ pc' = NextLine(pc)
    /\ UNCHANGED <<sys_modules, raised, attempted, state_module, workflow_module>>

\* Lines 20-23: __all__ = ["build_agent_graph", "AgentState"]; the body ends
\* and the import returns to the importer.
AssignAll ==
    /\ pc = "line20"
    /\ __all__' = ExportList
    /\ namespace' = Bind(namespace, "__all__", ListObj)
    /\ pc' = NextLine(pc)
    /\ UNCHANGED <<sys_modules, raised, attempted, calls, state_module, workflow_module>>

Next == ImportState \/ ImportWorkflow \/ AssignAll

Spec == Init /\ [][Next]_vars

\* The import of src.agent has completed successfully.
Imported == pc = "done" /\ PackageName \in sys_modules /\ raised = NoError

\* The export list has been established.
AllAssigned == "__all__" \in DOMAIN namespace

\* The names the export list holds.
Listed == {__all__[i] : i \in 1..Len(__all__)}

\* The module at position i of the resolutions the initializer started.
SiblingAt(i) == IF attempted[i] = StateModuleName THEN state_module ELSE workflow_module

\* The name the initializer takes from the module at position i.
NameAt(i) == IF attempted[i] = StateModuleName THEN "AgentState" ELSE "build_agent_graph"

\* C1: once src.agent is imported, __all__ holds exactly build_agent_graph and
\* AgentState: neither is missing, nothing else is listed, nothing is listed twice.
C1_ExportListExact ==
    Imported =>
        /\ AllAssigned
        /\ Listed = {"build_agent_graph", "AgentState"}
        /\ Len(__all__) = Cardinality(Listed)

C1_Witness == Imported /\ Len(__all__) > 0

\* C2: once src.agent is imported, every name listed in __all__ is bound in
\* the package namespace, AgentState and build_agent_graph among them.
C2_ListedNamesBound ==
    Imported =>
        /\ Listed \subseteq DOMAIN namespace
        /\ {"build_agent_graph", "AgentState"} \subseteq DOMAIN namespace

C2_Witness == Imported /\ Listed # {} /\ Cardinality(DOMAIN namespace) >= 2

\* C3: when the resolution of a sibling import fails, the import of src.agent
\* fails as a whole: the exception reaches the importer uncaught, the package
\* is never successfully imported and __all__ is never established.
C3_ImportFailurePropagates ==
    /\ \A i \in 1..Len(attempted) :
            ~Resolves(SiblingAt(i), NameAt(i)) =>
                /\ pc = "failed"
                /\ raised = ImportError(SiblingAt(i), NameAt(i))
                /\ PackageName \notin sys_modules
    /\ (~Resolves(state_module, "AgentState")
            \/ ~Resolves(workflow_module, "build_agent_graph")) =>
                /\ ~Imported
                /\ pc # "done"
                /\ ~AllAssigned
                /\ __all__ = <<>>

C3_Witness ==
    /\ pc = "failed"
    /\ raised = "ExecError"
    /\ workflow_module.status = "broken"
    /\ attempted = <<StateModuleName, WorkflowModuleName>>

C5_IdentityReexport ==
    Imported =>
        /\ {"AgentState", "build_agent_graph"} \subseteq DOMAIN namespace
        /\ "AgentState" \in DOMAIN state_module.defs
        /\ "build_agent_graph" \in DOMAIN workflow_module.defs
        /\ namespace["AgentState"] = state_module.defs["AgentState"]
        /\ namespace["build_agent_graph"] = workflow_module.defs["build_agent_graph"]

C5_Witness ==
    /\ Imported
    /\ DOMAIN state_module.defs = SiblingNames
    /\ DOMAIN workflow_module.defs = SiblingNames
    /\ state_module.defs["AgentState"] # workflow_module.defs["AgentState"]
    /\ state_module.defs["AgentState"] # state_module.defs["build_agent_graph"]
    /\ workflow_module.defs["build_agent_graph"] # workflow_module.defs["AgentState"]
    /\ namespace["AgentState"] # namespace["build_agent_graph"]

\* C6: the initializer resolves src.agent.state first, src.agent.workflow
\* second and assigns __all__ only after both resolved; when src.agent.state
\* fails, src.agent.workflow is never attempted, and when src.agent.workflow
\* fails, AgentState is bound already and __all__ is not assigned.
C6_LinearOrder ==
    /\ attempted \in {<<>>, <<StateModuleName>>, <<StateModuleName, WorkflowModuleName>>}
    /\ Len(attempted) = 2 => Resolves(state_module, "AgentState")
    /\ AllAssigned =>
        /\ Len(attempted) = 2
        /\ Resolves(state_module, "AgentState")
        /\ Resolves(workflow_module, "build_agent_graph")
        /\ {"AgentState", "build_agent_graph"} \subseteq DOMAIN namespace
    /\ (pc = "failed" /\ ~Resolves(state_module, "AgentState")) =>
        /\ attempted = <<StateModuleName>>
        /\ WorkflowModuleName \notin sys_modules
    /\ (pc = "failed" /\ Resolves(state_module, "AgentState")) =>
        /\ ~Resolves(workflow_module, "build_agent_graph")
        /\ attempted = <<StateModuleName, WorkflowModuleName>>
        /\ "AgentState" \in DOMAIN namespace
        /\ "build_agent_graph" \notin DOMAIN namespace
        /\ ~AllAssigned

C6_Witness ==
    /\ pc = "failed"
    /\ workflow_module.status = "absent"
    /\ "AgentState" \in DOMAIN namespace
    /\ ~AllAssigned

TypeOK ==
    /\ pc \in {"line17", "line18", "line20", "done", "failed"}
    /\ DOMAIN namespace \subseteq SiblingNames \cup {"__all__"}
    /\ raised \in Errors \cup {NoError}
    /\ state_module \in SiblingModules
    /\ workflow_module \in SiblingModules
====
